---- MODULE Spec2Model ----
(***************************************************************************)
(* The emergency-department simulation of "hgospital projexct.cpp": the    *)
(* loop of main(), one action per statement group of the loop body, with   *)
(* pc the position inside the loop.  The pool sizes, the horizon and the   *)
(* values the random generators return are the inputs of a run.            *)
(***************************************************************************)
EXTENDS Integers, Sequences, FiniteSets, TLC

\* ------------------------------------------------------------ constants
NUM_DOCTORS == 5
NUM_BEDS == 10
SIMULATION_MINUTES == 1440

\* ------------------------------------------------------------ bounds
\* Number of patients a run admits at most; afterwards the arrival
\* generator only returns times past every horizon.
MaxPatients == 3
\* Largest pool size of the small configurations (the shipped one is added).
MaxPool == 2

\* Horizons of the small configurations.
Horizons == {0, 120}
\* Inter-arrival gaps, in minutes, that generateArrivalTime may add.
FarGap == SIMULATION_MINUTES
Gaps == {0, 1, 80, FarGap}
\* Values of the 1..10 roll of generateSeverity (severities 3 and 5).
Rolls == {3, 7}
\* Treatment durations sampled from the generator's range 30+10*severity..120.
TreatTimes == {80, 120}
\* Treatment durations a fixed-sequence random source injects (scenario of
\* spec.md section 8: treatment 50 for severities 5 and 3).
ScenarioTreatTimes == {50}
\* What a read of the destroyed last element may yield besides its old value.
Indeterminate == {0}

VARIABLES
    pc,                 \* "test", "arrivals", "clock", "assign", "done", "end"
    numDoctors,         \* pool sizes and horizon of this run
    numBeds,
    simulationMinutes,
    doctors,            \* sequence of [available, endTime]
    beds,
    waitingRoom,        \* the priority queue's elements (set of Patient)
    allPatients,        \* the registry: sequence of Patient copies
    nextPatientId,
    currentTime,
    nextArrivalTime,
    totalWaitTime,
    totalPatients,
    patientsTreated,
    doctorUtilization,
    bedUtilization,
    treated,            \* history: one record per successful allocation
    tick,               \* history: clock, count and pools at the loop test
    result              \* the figures of lines 161-163, once computed

vars == <<pc, numDoctors, numBeds, simulationMinutes, doctors, beds,
          waitingRoom, allPatients, nextPatientId, currentTime,
          nextArrivalTime, totalWaitTime, totalPatients, patientsTreated,
          doctorUtilization, bedUtilization, treated, tick, result>>

config == <<numDoctors, numBeds, simulationMinutes>>
metrics == <<totalWaitTime, patientsTreated, doctorUtilization, bedUtilization>>

Min(a, b) == IF a <= b THEN a ELSE b
Max(a, b) == IF a >= b THEN a ELSE b

\* ------------------------------------------------------------ data
Patient(id, arrivalTime, severity, treatmentTime) ==
    [id |-> id, arrivalTime |-> arrivalTime, severity |-> severity,
     treatmentTime |-> treatmentTime, waitTime |-> 0, startTreatmentTime |-> 0]

Resource == [available |-> TRUE, endTime |-> 0]

\* Mutant: the severity test reversed.
ComparatorSeverityReversed(a, b) ==
    IF a.severity # b.severity THEN a.severity > b.severity
    ELSE a.arrivalTime > b.arrivalTime

\* a < b in the heap's order: b is served before a.
PatientComparator(a, b) ==
    IF a.severity # b.severity THEN a.severity < b.severity
    ELSE a.arrivalTime > b.arrivalTime

\* The elements std::priority_queue::top() may return: those no other
\* element is ordered after.
Tops(q) == {t \in q : \A x \in q : ~PatientComparator(t, x)}

\* ------------------------------------------------------------ generators
\* currentTime + int(hoursToNext * 60): the rate only shapes how likely each
\* gap is, so lambda and currentHour (lines 94-95) are not state.
generateArrivalTime(current, gap) == current + gap

generateSeverity(roll) ==
    IF roll >= 7 THEN 5 ELSE IF roll >= 5 THEN 4 ELSE IF roll >= 3 THEN 3
    ELSE IF roll >= 2 THEN 2 ELSE 1

generateTreatmentTime(severity) ==
    {t \in TreatTimes : 30 + (severity * 10) <= t /\ t <= 120}

TreatmentDraws(severity) == generateTreatmentTime(severity) \cup ScenarioTreatTimes

\* Gaps the generator may return once id patients have been created.
GapDraws(id) == IF id > MaxPatients THEN {FarGap} ELSE Gaps

\* ------------------------------------------------------------ Init
\* What an iteration of the loop starts from.
TickStart ==
    [time |-> currentTime, treated |-> patientsTreated,
     doctors |-> doctors, beds |-> beds]

\* A double quotient x / d, kept as its operands: d = 0 gives NaN (x = 0)
\* or an infinity, never 0.
Divide(x, d) == [num |-> x, den |-> d]
Zero == Divide(0, 1)
NoResult == [doctorUtilization |-> Zero, bedUtilization |-> Zero, avgWaitTime |-> Zero]

Configurations ==
    ((0..MaxPool) \X (0..MaxPool) \X Horizons)
        \cup {<<NUM_DOCTORS, NUM_BEDS, SIMULATION_MINUTES>>}

Init ==
    /\ pc = "test"
    /\ \E c \in Configurations :
          /\ numDoctors = c[1]
          /\ numBeds = c[2]
          /\ simulationMinutes = c[3]
    /\ doctors = [i \in 1..numDoctors |-> Resource]
    /\ beds = [i \in 1..numBeds |-> Resource]
    /\ waitingRoom = {}
    /\ allPatients = <<>>
    /\ nextPatientId = 1
    /\ currentTime = 0
    /\ \E gap \in GapDraws(1) : nextArrivalTime = generateArrivalTime(0, gap)
    /\ totalWaitTime = 0
    /\ totalPatients = 0
    /\ patientsTreated = 0
    /\ doctorUtilization = 0
    /\ bedUtilization = 0
    /\ treated = <<>>
    /\ tick = TickStart
    /\ result = NoResult

\* ------------------------------------------------------------ loop test
LoopCondition == currentTime < simulationMinutes \/ waitingRoom # {}

LoopEnter ==
    /\ pc = "test"
    /\ LoopCondition
    /\ pc' = "arrivals"
    /\ tick' = TickStart
    /\ UNCHANGED <<config, doctors, beds, waitingRoom, allPatients,
                   nextPatientId, currentTime, nextArrivalTime, metrics,
                   totalPatients, treated, result>>

LoopExit ==
    /\ pc = "test"
    /\ ~LoopCondition
    /\ pc' = "done"
    /\ UNCHANGED <<config, doctors, beds, waitingRoom, allPatients,
                   nextPatientId, currentTime, nextArrivalTime, metrics,
                   totalPatients, treated, tick, result>>

\* ------------------------------------------------------------ arrivals
\* Mutant: every arrival up to the horizon is generated at once.
ArrivalDueUpToHorizon == nextArrivalTime <= simulationMinutes

ArrivalDue == nextArrivalTime <= currentTime /\ nextArrivalTime < simulationMinutes

CountArrival(n) == n + 1

AdmitArrival ==
    /\ pc = "arrivals"
    /\ ArrivalDue
    /\ \E roll \in Rolls :
         LET severity == generateSeverity(roll) IN
         \E treatmentTime \in TreatmentDraws(severity) :
           LET p == Patient(nextPatientId, nextArrivalTime, severity, treatmentTime) IN
             /\ waitingRoom' = waitingRoom \cup {p}
             /\ allPatients' = Append(allPatients, p)
    /\ nextPatientId' = nextPatientId + 1
    /\ totalPatients' = CountArrival(totalPatients)
    /\ \E gap \in GapDraws(nextPatientId + 1) :
         nextArrivalTime' = generateArrivalTime(nextArrivalTime, gap)
    /\ pc' = "arrivals"
    /\ UNCHANGED <<config, doctors, beds, currentTime, metrics, treated, tick,
                   result>>

ArrivalsDone ==
    /\ pc = "arrivals"
    /\ ~ArrivalDue
    /\ pc' = "clock"
    /\ UNCHANGED <<config, doctors, beds, waitingRoom, allPatients,
                   nextPatientId, currentTime, nextArrivalTime, metrics,
                   totalPatients, treated, tick, result>>

\* ------------------------------------------------------------ clock
\* Mutant: the refresh is skipped.
RefreshForgotten(pool, now) == pool

\* Mutant: the flag of a unit whose endTime has passed is flipped.
RefreshToggle(pool, now) ==
    [i \in DOMAIN pool |->
        IF pool[i].endTime <= now
        THEN [pool[i] EXCEPT !.available = ~pool[i].available] ELSE pool[i]]

\* Lines 116-123: a busy unit whose endTime has passed becomes available.
Refresh(pool, now) ==
    [i \in DOMAIN pool |->
        IF ~pool[i].available /\ pool[i].endTime <= now
        THEN [pool[i] EXCEPT !.available = TRUE] ELSE pool[i]]

\* Mutant: the clock always steps by one minute.
ClockStepAlways(now, nextEventTime) == now + 1

\* Mutant: the clock always jumps to the next event.
ClockStepJump(now, nextEventTime) == nextEventTime

\* Line 124.
ClockStep(now, nextEventTime) == Min(now + 1, nextEventTime)

\* The least element of a non-empty set of integers.
SetMin(S) == CHOOSE m \in S : \A x \in S : m <= x

EndTimes(pool) == {pool[i].endTime : i \in DOMAIN pool}

TopArrivalTime(q) == (CHOOSE t \in Tops(q) : TRUE).arrivalTime

\* Mutant: the arrival time of the queue's top is left out of the minimum.
NextEventTimeNoQueueHead ==
    SetMin({simulationMinutes} \cup EndTimes(doctors) \cup EndTimes(beds))

\* Lines 111-123: the running std::min over the horizon, the arrival time
\* of the queue's top and every clinician's and bed's endTime.
NextEventTime ==
    SetMin({simulationMinutes}
             \cup (IF waitingRoom # {} THEN {TopArrivalTime(waitingRoom)} ELSE {})
             \cup EndTimes(doctors) \cup EndTimes(beds))

AdvanceClock ==
    /\ pc = "clock"
    /\ doctors' = Refresh(doctors, currentTime)
    /\ beds' = Refresh(beds, currentTime)
    /\ currentTime' = ClockStep(currentTime, NextEventTime)
    /\ pc' = "assign"
    /\ UNCHANGED <<config, waitingRoom, allPatients, nextPatientId,
                   nextArrivalTime, metrics, totalPatients, treated, tick, result>>

\* ------------------------------------------------------------ assignment
AssignTime(top) == Max(currentTime, top.arrivalTime)

\* Mutant: every unit passes.
UnitUsableAlways(r, assignTime) == TRUE

\* The predicate of both std::find_if calls.
UnitUsable(r, assignTime) == r.available /\ assignTime >= r.endTime

\* Mutant: the first unit stands in for end().
FindAvailableNoSentinel(pool, assignTime) ==
    LET usable == {i \in DOMAIN pool : UnitUsable(pool[i], assignTime)}
    IN  IF usable = {} THEN 1 ELSE CHOOSE i \in usable : \A j \in usable : i <= j

\* Index of the first usable unit, 0 for end().
FindAvailable(pool, assignTime) ==
    LET usable == {i \in DOMAIN pool : UnitUsable(pool[i], assignTime)}
    IN  IF usable = {} THEN 0 ELSE CHOOSE i \in usable : \A j \in usable : i <= j

\* Mutant: the arrival time is not subtracted.
WaitTimeNotSubtracted(assignTime, top) == assignTime

WaitTime(assignTime, top) == assignTime - top.arrivalTime

\* Mutant: the unit is busy for the duration counted from minute 0.
BusyUntilFromZero(assignTime, top) == top.treatmentTime

BusyUntil(assignTime, top) == assignTime + top.treatmentTime

\* Mutant: every usable unit is taken, not only the one found.
AcquireEveryUsable(pool, i, assignTime, top) ==
    [j \in DOMAIN pool |->
        IF UnitUsable(pool[j], assignTime)
        THEN [available |-> FALSE, endTime |-> BusyUntil(assignTime, top)]
        ELSE pool[j]]

Acquire(pool, i, assignTime, top) ==
    [pool EXCEPT ![i] = [available |-> FALSE, endTime |-> BusyUntil(assignTime, top)]]

\* Mutant: the pop is forgotten.
PopForgotten(q, top) == q

\* waitingRoom.pop()
Pop(q, top) == q \ {top}

\* Lines 153-154 read topPatient.treatmentTime after the pop.  topPatient
\* refers to the first element of the heap's vector: after the pop that is
\* the new top, and with no element left it is the destroyed element, whose
\* read is undefined.
ReadAfterPop(q, top) ==
    IF q # {} THEN {t.treatmentTime : t \in Tops(q)}
    ELSE {top.treatmentTime} \cup Indeterminate

AssignEmpty ==
    /\ pc = "assign"
    /\ waitingRoom = {}
    /\ pc' = "test"
    /\ UNCHANGED <<config, doctors, beds, waitingRoom, allPatients,
                   nextPatientId, currentTime, nextArrivalTime, metrics,
                   totalPatients, treated, tick, result>>

AssignNoDoctor ==
    /\ pc = "assign"
    /\ waitingRoom # {}
    /\ \E top \in Tops(waitingRoom) :
         FindAvailable(doctors, AssignTime(top)) = 0
    /\ pc' = "test"
    /\ UNCHANGED <<config, doctors, beds, waitingRoom, allPatients,
                   nextPatientId, currentTime, nextArrivalTime, metrics,
                   totalPatients, treated, tick, result>>

AssignNoBed ==
    /\ pc = "assign"
    /\ waitingRoom # {}
    /\ \E top \in Tops(waitingRoom) :
         /\ FindAvailable(doctors, AssignTime(top)) # 0
         /\ FindAvailable(beds, AssignTime(top)) = 0
    /\ pc' = "test"
    /\ UNCHANGED <<config, doctors, beds, waitingRoom, allPatients,
                   nextPatientId, currentTime, nextArrivalTime, metrics,
                   totalPatients, treated, tick, result>>

AssignSuccess ==
    /\ pc = "assign"
    /\ waitingRoom # {}
    /\ \E top \in Tops(waitingRoom) :
         LET assignTime == AssignTime(top)
             availDoctor == FindAvailable(doctors, assignTime)
             availBed == FindAvailable(beds, assignTime)
             assigned == [top EXCEPT !.waitTime = WaitTime(assignTime, top),
                                     !.startTreatmentTime = assignTime]
         IN  /\ availDoctor # 0
             /\ availBed # 0
             /\ totalWaitTime' = totalWaitTime + assigned.waitTime
             /\ doctors' = Acquire(doctors, availDoctor, assignTime, top)
             /\ beds' = Acquire(beds, availBed, assignTime, top)
             /\ waitingRoom' = Pop(waitingRoom, top)
             /\ patientsTreated' = patientsTreated + 1
             /\ \E read \in ReadAfterPop(Pop(waitingRoom, top), top) :
                  /\ doctorUtilization' = doctorUtilization + read
                  /\ bedUtilization' = bedUtilization + read
             /\ treated' = Append(treated,
                   [patient |-> assigned, doctor |-> availDoctor, bed |-> availBed,
                    assignTime |-> assignTime, queue |-> waitingRoom])
    /\ pc' = "test"
    /\ UNCHANGED <<config, allPatients, nextPatientId, currentTime,
                   nextArrivalTime, totalPatients, tick, result>>

\* ------------------------------------------------------------ results
\* Lines 161-163.
Utilization(busyMinutes, poolSize) ==
    IF poolSize > 0 THEN Divide(busyMinutes, poolSize * simulationMinutes) ELSE Zero

AverageWaitTime ==
    IF patientsTreated > 0 THEN Divide(totalWaitTime, patientsTreated) ELSE Zero

Finalize ==
    /\ pc = "done"
    /\ result' = [doctorUtilization |-> Utilization(doctorUtilization, numDoctors),
                  bedUtilization |-> Utilization(bedUtilization, numBeds),
                  avgWaitTime |-> AverageWaitTime]
    /\ pc' = "end"
    /\ UNCHANGED <<config, doctors, beds, waitingRoom, allPatients,
                   nextPatientId, currentTime, nextArrivalTime, metrics,
                   totalPatients, treated, tick>>

Next ==
    \/ LoopEnter
    \/ LoopExit
    \/ AdmitArrival
    \/ ArrivalsDone
    \/ AdvanceClock
    \/ AssignEmpty
    \/ AssignNoDoctor
    \/ AssignNoBed
    \/ AssignSuccess
    \/ Finalize

Spec == Init /\ [][Next]_vars

\* The loop is the only thread of control: it takes its next step whenever
\* it has one.
FairSpec == Spec /\ WF_vars(Next)

\* ------------------------------------------------------------ helpers of the properties
TreatedIds == {treated[i].patient.id : i \in DOMAIN treated}
WaitingIds == {p.id : p \in waitingRoom}
BothPools == numDoctors >= 1 /\ numBeds >= 1
BusyEnd(e) == e.assignTime + e.patient.treatmentTime
Disjoint(e, f) == BusyEnd(e) <= f.assignTime \/ BusyEnd(f) <= e.assignTime

\* C1: with at least one clinician and one bed the loop eventually
\* terminates, with currentTime at the horizon and the waiting queue empty.
C1_Terminates ==
    BothPools =>
        <>(pc = "done" /\ currentTime >= simulationMinutes /\ waitingRoom = {})

\* C2: 1 clinician, 1 bed, horizon 120, exactly two arrivals at t=0, first
\* (severity 5, treatment 50) then (severity 3, treatment 50): the
\* severity-5 patient is treated first at t=0 with wait 0 and the severity-3
\* patient is later treated at t=50 with wait 50.
C2_Inputs ==
    /\ numDoctors = 1 /\ numBeds = 1 /\ simulationMinutes = 120
    /\ Len(allPatients) = 2
    /\ nextArrivalTime >= simulationMinutes
    /\ allPatients[1] = Patient(1, 0, 5, 50)
    /\ allPatients[2] = Patient(2, 0, 3, 50)
C2_Outcome ==
    /\ Len(treated) = 2
    /\ treated[1].patient = [Patient(1, 0, 5, 50) EXCEPT !.startTreatmentTime = 0,
                                                         !.waitTime = 0]
    /\ treated[2].patient = [Patient(2, 0, 3, 50) EXCEPT !.startTreatmentTime = 50,
                                                         !.waitTime = 50]
C3_EveryWaitingTreated ==
    \A id \in 1..MaxPatients :
        (BothPools /\ id \in WaitingIds) ~> (id \in TreatedIds)

\* C4: every arrival scheduled strictly before the horizon is eventually
\* admitted (pushed onto the waiting queue and the registry).
C4_EveryArrivalAdmitted ==
    \A n \in 0..(MaxPatients - 1) :
        (totalPatients = n /\ nextArrivalTime < simulationMinutes)
            ~> (totalPatients > n /\ Len(allPatients) > n)

\* C5: the busy intervals [assignTime, assignTime + treatmentTime) given to
\* one clinician, or to one bed, never overlap.
C5_NoDoubleBooking ==
    \A i, j \in DOMAIN treated :
        i < j =>
            /\ treated[i].doctor = treated[j].doctor => Disjoint(treated[i], treated[j])
            /\ treated[i].bed = treated[j].bed => Disjoint(treated[i], treated[j])
C5_Witness ==
    \E i, j \in DOMAIN treated :
        i < j /\ treated[i].doctor = treated[j].doctor /\ treated[i].bed = treated[j].bed

\* C6: the patient an allocation removes is maximal in the queue at that
\* moment: nobody waiting has a higher severity, nobody of equal severity
\* arrived earlier.
C6_PopsMaximal ==
    \A i \in DOMAIN treated :
        \A x \in treated[i].queue :
            /\ x.severity <= treated[i].patient.severity
            /\ x.severity = treated[i].patient.severity
                  => x.arrivalTime >= treated[i].patient.arrivalTime
C6_Witness ==
    \E i \in DOMAIN treated :
        \E x \in treated[i].queue : x.severity < treated[i].patient.severity

\* C7: conservation: patientsTreated <= totalPatients, totalPatients is
\* patientsTreated plus the queue length, and every admitted patient is
\* either waiting or treated exactly once.
C7_Conservation ==
    /\ patientsTreated <= totalPatients
    /\ totalPatients = patientsTreated + Cardinality(waitingRoom)
    /\ Cardinality(TreatedIds) = Len(treated)
    /\ Len(treated) = patientsTreated
    /\ TreatedIds \cap WaitingIds = {}
    /\ TreatedIds \cup WaitingIds = 1..totalPatients
C7_Witness == patientsTreated >= 1 /\ waitingRoom # {} /\ totalPatients = MaxPatients

\* C8: a successful allocation adds the treated patient's treatmentTime to
\* both busy-minute accumulators and 1 to patientsTreated.
C8_Accumulators ==
    [][patientsTreated' # patientsTreated =>
          LET e == treated'[Len(treated')] IN
            /\ patientsTreated' = patientsTreated + 1
            /\ doctorUtilization' = doctorUtilization + e.patient.treatmentTime
            /\ bedUtilization' = bedUtilization + e.patient.treatmentTime]_vars

\* C9: every treated patient has waitTime = startTreatmentTime - arrivalTime
\* and startTreatmentTime >= arrivalTime.
C9_WaitTime ==
    \A i \in DOMAIN treated :
        LET p == treated[i].patient IN
            /\ p.waitTime = p.startTreatmentTime - p.arrivalTime
            /\ p.startTreatmentTime >= p.arrivalTime
C9_Witness ==
    \E i \in DOMAIN treated : treated[i].patient.arrivalTime > 0

\* C10: the registry record of a treated patient carries the assignment:
\* its startTreatmentTime is the time treatment began and its waitTime is
\* startTreatmentTime - arrivalTime; only unassigned patients keep the
\* unset value.
C10_RegistryReflects ==
    /\ \A i \in DOMAIN treated :
          LET r == allPatients[treated[i].patient.id] IN
              /\ r.startTreatmentTime = treated[i].assignTime
              /\ r.waitTime = r.startTreatmentTime - r.arrivalTime
    /\ \A k \in DOMAIN allPatients :
          k \notin TreatedIds =>
              allPatients[k].startTreatmentTime = 0 /\ allPatients[k].waitTime = 0

\* ------------------------------------------------------------ C11..C20
Units == {doctors[i] : i \in DOMAIN doctors} \cup {beds[i] : i \in DOMAIN beds}
FlagsExact == \A r \in Units : r.available = (r.endTime <= currentTime)
Usable(r) == r.available /\ r.endTime <= currentTime
IsZero(q) == q.num = 0 /\ q.den # 0
LastTreated == treated[Len(treated)]

\* C11 (as claimed): at the allocation step of every tick, every clinician
\* and every bed has available = (busyUntil <= currentTime).
C11_FlagsExactAtAllocation == pc = "assign" => FlagsExact
\* C11 (amended): the same at the allocation step of every tick whose
\* waiting queue is non-empty, that is whenever a decision is made.
C11_FlagsExactWhenDeciding == (pc = "assign" /\ waitingRoom # {}) => FlagsExact
C11_Witness ==
    /\ pc = "assign" /\ waitingRoom # {}
    /\ \E r \in Units : r.available /\ r.endTime > 0

\* C12 (as claimed): in a tick the availability refresh precedes the
\* admission of arrivals and the allocation attempt precedes the advance
\* of currentTime, so the attempt sees the currentTime of the admission.
C12_OrderAsClaimed ==
    /\ pc = "arrivals" =>
          /\ doctors = Refresh(tick.doctors, tick.time)
          /\ beds = Refresh(tick.beds, tick.time)
    /\ pc = "assign" => currentTime = tick.time
\* C12 (amended): in a tick arrivals are admitted first, with the pools and
\* the clock as the tick found them; then availability is refreshed against
\* that clock and currentTime is advanced; the allocation attempt comes
\* last, and with a non-empty queue it still sees the currentTime of the
\* admission.
C12_OrderOfTheLoop ==
    /\ pc \in {"arrivals", "clock"} =>
          /\ doctors = tick.doctors /\ beds = tick.beds
          /\ currentTime = tick.time
    /\ pc = "assign" =>
          /\ doctors = Refresh(tick.doctors, tick.time)
          /\ beds = Refresh(tick.beds, tick.time)
          /\ currentTime = Min(tick.time + 1, currentTime)
          /\ waitingRoom # {} => currentTime = tick.time
C12_Witness ==
    /\ pc = "assign" /\ waitingRoom # {}
    /\ doctors # tick.doctors
    /\ Cardinality(waitingRoom) + patientsTreated > tick.treated

\* C13: a run without arrivals ends with patientsTreated = 0 and average
\* wait, clinician utilization and bed utilization all equal to 0.
C13_NoArrivalsAllZero ==
    (pc = "end" /\ totalPatients = 0) =>
        /\ patientsTreated = 0
        /\ IsZero(result.avgWaitTime)
        /\ IsZero(result.doctorUtilization)
        /\ IsZero(result.bedUtilization)

\* C14: with one clinician and no bed nobody is ever assigned:
\* patientsTreated stays 0, every admitted patient stays queued and the
\* clinician stays available with endTime 0.
C14_NoBedNoAssignment ==
    (numDoctors = 1 /\ numBeds = 0) =>
        /\ patientsTreated = 0
        /\ WaitingIds = 1..totalPatients
        /\ doctors[1] = Resource
C14_Witness ==
    /\ numDoctors = 1 /\ numBeds = 0
    /\ totalPatients = 1 /\ pc = "test" /\ tick.time = currentTime
    /\ waitingRoom # {}

\* C15: the allocation step allocates only to a clinician and a bed that
\* are both available and free at assignTime, and when it allocates nothing
\* it leaves every unit, the queue and all accumulators as they were.
C15_AllocationStepFrame ==
    [][pc = "assign" =>
         IF patientsTreated' # patientsTreated
         THEN LET e == treated'[Len(treated')] IN
                /\ e.doctor \in DOMAIN doctors /\ e.bed \in DOMAIN beds
                /\ doctors[e.doctor].available /\ e.assignTime >= doctors[e.doctor].endTime
                /\ beds[e.bed].available /\ e.assignTime >= beds[e.bed].endTime
         ELSE UNCHANGED <<doctors, beds, waitingRoom, patientsTreated,
                          totalWaitTime, doctorUtilization, bedUtilization>>]_vars
C15_Witness ==
    /\ pc = "test" /\ waitingRoom # {} /\ patientsTreated = tick.treated
    /\ numBeds >= 1
    /\ \E i \in DOMAIN doctors : Usable(doctors[i])
    /\ \A i \in DOMAIN beds : ~Usable(beds[i])

\* C16: one tick treats at most one patient and makes at most one
\* clinician and at most one bed busy.
C16_OneAllocationPerTick ==
    /\ patientsTreated <= tick.treated + 1
    /\ Cardinality({i \in DOMAIN doctors : doctors[i].endTime # tick.doctors[i].endTime}) <= 1
    /\ Cardinality({i \in DOMAIN beds : beds[i].endTime # tick.beds[i].endTime}) <= 1
C16_Witness ==
    /\ pc = "test" /\ patientsTreated = tick.treated + 1
    /\ waitingRoom # {}
    /\ \E i \in DOMAIN doctors : Usable(doctors[i])
    /\ \E i \in DOMAIN beds : Usable(beds[i])

\* C17: every patient in the queue or the registry arrived strictly before
\* the horizon, and totalPatients no longer changes once nextArrivalTime
\* has reached the horizon.
C17_NoArrivalPastHorizon ==
    /\ [](/\ \A p \in waitingRoom : p.arrivalTime < simulationMinutes
          /\ \A k \in DOMAIN allPatients : allPatients[k].arrivalTime < simulationMinutes)
    /\ [][nextArrivalTime >= simulationMinutes => totalPatients' = totalPatients]_vars
C17_Witness ==
    /\ totalPatients >= 1 /\ nextArrivalTime >= simulationMinutes
    /\ pc = "arrivals" /\ currentTime > 0

\* C18: refreshing a pool twice at the same currentTime gives what one
\* refresh gives, and a refresh changes no endTime.
C18_RefreshIdempotent ==
    \A pool \in {doctors, beds} :
        LET once == Refresh(pool, currentTime) IN
            /\ Refresh(once, currentTime) = once
            /\ \A i \in DOMAIN pool : once[i].endTime = pool[i].endTime
C18_Witness ==
    /\ pc = "clock"
    /\ Refresh(doctors, currentTime) # doctors
    /\ Refresh(beds, currentTime) # beds

\* C19: currentTime never decreases and never exceeds the horizon.
C19_ClockMonotoneBounded ==
    /\ [](currentTime <= simulationMinutes)
    /\ [][currentTime' >= currentTime]_vars
C19_Witness ==
    /\ pc = "assign" /\ currentTime > tick.time
    /\ patientsTreated >= 1
    /\ \E r \in Units : r.endTime > currentTime

\* C20: an allocation happens with currentTime at most the patient's
\* arrivalTime, so assignTime is the arrivalTime, the wait is 0 and
\* totalWaitTime is always 0.
C20_NeverAnyWait ==
    /\ [](/\ totalWaitTime = 0
          /\ \A i \in DOMAIN treated :
                /\ treated[i].assignTime = treated[i].patient.arrivalTime
                /\ treated[i].patient.waitTime = 0)
    /\ [][patientsTreated' # patientsTreated =>
            currentTime' <= treated'[Len(treated')].patient.arrivalTime]_vars
C20_Witness ==
    /\ Len(treated) >= 2
    /\ LastTreated.assignTime >= treated[1].assignTime + treated[1].patient.treatmentTime

====
